---- MODULE Spec2Model ----
(***************************************************************************)
(* hello_ops: a FastAPI application (app/main.py) with two GET routes,     *)
(* /health and /hello.  The model covers the application object built by   *)
(* `app = FastAPI(title="hello_ops")` and the two decorators: the route    *)
(* table, the router's dispatch of a request to an endpoint, the solving   *)
(* of the `name: str` query parameter, the two handler bodies, and the     *)
(* responses, and the middleware stack the application builds when it is   *)
(* first called.  Requests occupy connection slots and are handled in      *)
(* steps that interleave: receive, dispatch, solve the parameters (event   *)
(* loop), call the route function (worker thread), build the response      *)
(* (event loop), complete.                                                 *)
(* An optional attribute (None or a value) is <<>> or <<value>>.          *)
(*                                                                         *)
(* A path is the sequence of its segments after the leading "/":          *)
(*   "/health" = <<"health">>, "/health/" = <<"health", "">>, "/" = <<"">> *)
(* A string value (a name, a message) is the sequence of its characters.   *)
(* A query string is the sequence of its decoded key/value pairs.          *)
(***************************************************************************)
EXTENDS Naturals, Sequences, FiniteSets

VARIABLES routes, openapi_schema, middleware_stack, pc, req, endpoint, args, ret, resp, called

vars == <<routes, openapi_schema, middleware_stack, pc, req, endpoint, args, ret, resp, called>>

(* ------------------------------ bounds -------------------------------- *)

\* connection slots: requests that can be in flight at the same time
MaxInflight == 2

\* longest parameter value, in characters
MaxLen == 1

\* most key/value pairs in a query string
MaxQuery == 2

Alphabet == {"A", "d"}

SeqsUpTo(S, n) == UNION {[1..k -> S] : k \in 0..n}

Slots == 1..MaxInflight

Names == SeqsUpTo(Alphabet, MaxLen)

Keys == {"name", "x"}

Params == [key : Keys, value : Names]

Queries == SeqsUpTo(Params, MaxQuery)

Methods == {"GET", "POST"}

HealthPath == <<"health">>

HelloPath == <<"hello">>

OpenapiPath == <<"openapi.json">>

DocsPath == <<"docs">>

OAuth2RedirectPath == <<"docs", "oauth2-redirect">>

RedocPath == <<"redoc">>

Paths ==
  { HealthPath, HelloPath, OpenapiPath, DocsPath, OAuth2RedirectPath, RedocPath,
    <<"health", "">>, <<"hello", "">>, <<"">>, <<"nope">> }

\* every request the single-connection specification sends
Requests == [method : Methods, path : Paths, query : Queries]

NameOnly(v) == <<[key |-> "name", value |-> v]>>

\* the requests the concurrent specification sends: GET /health, GET /hello
\* without a name or with one name, and GET /openapi.json (which fills the
\* application's schema cache)
ConcRequests ==
  { [method |-> "GET", path |-> p, query |-> <<>>] : p \in {HealthPath, HelloPath, OpenapiPath} }
  \cup { [method |-> "GET", path |-> HelloPath, query |-> NameOnly(v)] : v \in Names }

NoReq == [method |-> "", path |-> <<>>, query |-> <<>>]

NoResp == [status |-> 0, body |-> [none |-> TRUE]]

NoRet == [none |-> TRUE]

(* --------------------------- the route table --------------------------- *)

Route(path, methods, ep) == [path |-> path, methods |-> methods, endpoint |-> ep]

\* FastAPI.__init__ -> setup(): the schema and documentation routes that the
\* default openapi_url, docs_url and redoc_url register
FastAPI ==
  << Route(OpenapiPath, {"GET", "HEAD"}, "openapi"),
     Route(DocsPath, {"GET", "HEAD"}, "swagger_ui_html"),
     Route(OAuth2RedirectPath, {"GET", "HEAD"}, "swagger_ui_redirect"),
     Route(RedocPath, {"GET", "HEAD"}, "redoc_html") >>

\* @app.get(path): append a GET-only route for the decorated function
app_get(rt, path, ep) == Append(rt, Route(path, {"GET"}, ep))

app == app_get(app_get(FastAPI, HealthPath, "health"), HelloPath, "hello")

\* the paths of the routes that are part of the generated schema
get_openapi(rt) ==
  { rt[k].path : k \in { n \in 1..Len(rt) : rt[n].endpoint \in {"health", "hello"} } }

\* Starlette.build_middleware_stack with no user middleware: the server
\* error middleware, the exception middleware, then the router
build_middleware_stack == <<"ServerErrorMiddleware", "ExceptionMiddleware", "Router">>

(* ------------------------------ routing -------------------------------- *)

\* faulty variant of Match: a route also matches every longer path below it
Match_Prefix(route, method, path) ==
  IF Len(path) >= Len(route.path) /\ SubSeq(path, 1, Len(route.path)) = route.path
    THEN IF method \in route.methods THEN "FULL" ELSE "PARTIAL"
    ELSE "NONE"

\* Route.matches: the whole path must equal the route's path
Match(route, method, path) ==
  IF path = route.path
    THEN IF method \in route.methods THEN "FULL" ELSE "PARTIAL"
    ELSE "NONE"

RECURSIVE rstrip(_)
rstrip(path) ==
  IF path # <<>> /\ path[Len(path)] = ""
    THEN rstrip(SubSeq(path, 1, Len(path) - 1))
    ELSE path

\* the path the router tries when nothing matched: without its trailing
\* slashes, or with one added
redirect_path(path) ==
  IF path[Len(path)] = "" THEN rstrip(path) ELSE Append(path, "")

Matching(rt, method, path, kind) ==
  { k \in 1..Len(rt) : Match(rt[k], method, path) = kind }

Min(S) == CHOOSE m \in S : \A n \in S : m <= n

\* Router.app: the first full match, else the first partial match (405),
\* else a redirect when the path with the slash toggled matches, else 404
Router(rt, r) ==
  LET full == Matching(rt, r.method, r.path, "FULL")
      partial == Matching(rt, r.method, r.path, "PARTIAL")
      other == redirect_path(r.path)
  IN  IF full # {} THEN rt[Min(full)].endpoint
      ELSE IF partial # {} THEN "method_not_allowed"
      ELSE IF r.path # <<"">>
              /\ \E k \in 1..Len(rt) : Match(rt[k], r.method, other) # "NONE"
        THEN "redirect_slashes"
      ELSE "not_found"

(* ----------------------- parameters and handlers ----------------------- *)

Has(query, key) == \E k \in 1..Len(query) : query[k].key = key

\* QueryParams.get: the value of the last pair with this key
QueryGet(query, key) ==
  query[CHOOSE k \in 1..Len(query) :
          /\ query[k].key = key
          /\ \A n \in (k + 1)..Len(query) : query[n].key # key].value

MissingError ==
  [type |-> "missing", loc |-> <<"query", "name">>, msg |-> "Field required"]

\* faulty variant of solve_name: name declared with a default (name: str = "")
solve_name_Optional(query) ==
  IF Has(query, "name")
    THEN [values |-> <<QueryGet(query, "name")>>, errors |-> <<>>]
    ELSE [values |-> << <<>> >>, errors |-> <<>>]

\* faulty variant of solve_name: an empty value counts as missing
solve_name_BlankMissing(query) ==
  IF Has(query, "name") /\ QueryGet(query, "name") # <<>>
    THEN [values |-> <<QueryGet(query, "name")>>, errors |-> <<>>]
    ELSE [values |-> <<>>, errors |-> <<MissingError>>]

\* def hello(name: str): name is a required query parameter of type str; any
\* supplied string, the empty one included, is accepted as it is
solve_name(query) ==
  IF Has(query, "name")
    THEN [values |-> <<QueryGet(query, "name")>>, errors |-> <<>>]
    ELSE [values |-> <<>>, errors |-> <<MissingError>>]

Prefix == <<"h", "e", "l", "l", "o", " ">>

\* faulty variant of health: another status literal
health_Down == [status |-> "down"]

\* def health(): return {"status": "ok"}
health == [status |-> "ok"]

\* faulty variant of hello: f"hello{name}"
hello_NoSpace(name) == [message |-> <<"h", "e", "l", "l", "o">> \o name]

\* faulty variant of hello: "hello name" without the f-string substitution
hello_Literal(name) == [message |-> Prefix \o <<"n", "a", "m", "e">>]

\* def hello(name): return {"message": f"hello {name}"}
hello(name) == [message |-> Prefix \o name]

Response(status, body) == [status |-> status, body |-> body]

(* ------------------------------- actions ------------------------------- *)

Init ==
  /\ routes = app
  /\ openapi_schema = <<>>
  /\ middleware_stack = <<>>
  /\ pc = [i \in Slots |-> "idle"]
  /\ req = [i \in Slots |-> NoReq]
  /\ endpoint = [i \in Slots |-> ""]
  /\ args = [i \in Slots |-> <<>>]
  /\ ret = [i \in Slots |-> NoRet]
  /\ resp = [i \in Slots |-> NoResp]
  /\ called = [i \in Slots |-> ""]

\* the server calls the application with the lifespan scope before it sends
\* any request; the call builds the middleware stack.  (A client that sends
\* requests without it, as the test client of the tests does, leaves the
\* stack to the first request.)
Lifespan ==
  /\ middleware_stack = <<>>
  /\ middleware_stack' = <<build_middleware_stack>>
  /\ UNCHANGED <<routes, openapi_schema, pc, req, endpoint, args, ret, resp, called>>

\* a request arrives on a free connection and the application is called:
\*   if self.middleware_stack is None:
\*       self.middleware_stack = self.build_middleware_stack()
Receive(i, inputs) ==
  /\ pc[i] = "idle"
  /\ \E r \in inputs : req' = [req EXCEPT ![i] = r]
  /\ pc' = [pc EXCEPT ![i] = "received"]
  /\ middleware_stack' =
       IF middleware_stack = <<>> THEN <<build_middleware_stack>> ELSE middleware_stack
  /\ UNCHANGED <<routes, openapi_schema, endpoint, args, ret, resp, called>>

\* the request passes through the middleware stack to the router, which
\* picks the endpoint
Dispatch(i) ==
  /\ pc[i] = "received"
  /\ middleware_stack # <<>>
  /\ middleware_stack[1][Len(middleware_stack[1])] = "Router"
  /\ endpoint' = [endpoint EXCEPT ![i] = Router(routes, req[i])]
  /\ pc' = [pc EXCEPT ![i] = "routed"]
  /\ UNCHANGED <<routes, openapi_schema, middleware_stack, req, args, ret, resp, called>>

\* a response is produced without a route function of main.py being called
Finish(i, response, fn) ==
  /\ resp' = [resp EXCEPT ![i] = response]
  /\ called' = [called EXCEPT ![i] = fn]
  /\ pc' = [pc EXCEPT ![i] = "done"]
  /\ UNCHANGED <<req, endpoint, args, ret>>

\* on the event loop: the parameters of the route function are solved from
\* the query.  With errors the request is answered 422 at once; otherwise
\* the call is handed to the thread pool and the request is suspended.
Solve(i) ==
  /\ pc[i] = "routed"
  /\ endpoint[i] \in {"health", "hello"}
  /\ LET solved == IF endpoint[i] = "hello"
                     THEN solve_name(req[i].query)
                     ELSE [values |-> <<>>, errors |-> <<>>]
     IN  IF solved.errors # <<>>
           THEN Finish(i, Response(422, [detail |-> solved.errors]), "")
           ELSE /\ args' = [args EXCEPT ![i] = solved.values]
                /\ pc' = [pc EXCEPT ![i] = "suspended"]
                /\ UNCHANGED <<req, endpoint, ret, resp, called>>
  /\ UNCHANGED <<routes, openapi_schema, middleware_stack>>

\* the route function has run in a worker thread and returned
Return(i, fn, value) ==
  /\ called' = [called EXCEPT ![i] = fn]
  /\ ret' = [ret EXCEPT ![i] = value]
  /\ pc' = [pc EXCEPT ![i] = "returned"]
  /\ UNCHANGED <<req, endpoint, args, resp>>

\* faulty variant of Health: the handler resets application state
Health_DropsCache(i) ==
  /\ pc[i] = "suspended"
  /\ endpoint[i] = "health"
  /\ Return(i, "health", health)
  /\ openapi_schema' = <<>>
  /\ UNCHANGED <<routes, middleware_stack>>

\* in a worker thread: health()
Health(i) ==
  /\ pc[i] = "suspended"
  /\ endpoint[i] = "health"
  /\ Return(i, "health", health)
  /\ UNCHANGED <<routes, openapi_schema, middleware_stack>>

\* faulty variant of Hello: the name is kept in a variable shared by all requests
Hello_SharedName(i) ==
  /\ pc[i] = "suspended"
  /\ endpoint[i] = "hello"
  /\ \E j \in Slots :
       /\ endpoint[j] = "hello"
       /\ args[j] # <<>>
       /\ Return(i, "hello", hello(args[j][1]))
  /\ UNCHANGED <<routes, openapi_schema, middleware_stack>>

\* in a worker thread: hello(name) with the solved name
Hello(i) ==
  /\ pc[i] = "suspended"
  /\ endpoint[i] = "hello"
  /\ Return(i, "hello", hello(args[i][1]))
  /\ UNCHANGED <<routes, openapi_schema, middleware_stack>>

\* back on the event loop: the returned dict becomes a 200 JSON response
Respond(i) ==
  /\ pc[i] = "returned"
  /\ resp' = [resp EXCEPT ![i] = Response(200, ret[i])]
  /\ pc' = [pc EXCEPT ![i] = "done"]
  /\ UNCHANGED <<routes, openapi_schema, middleware_stack, req, endpoint, args, ret, called>>

\* FastAPI.openapi(): build the schema on first use and keep it
Openapi(i) ==
  /\ pc[i] = "routed"
  /\ endpoint[i] = "openapi"
  /\ LET schema == IF openapi_schema = <<>> THEN get_openapi(routes) ELSE openapi_schema[1]
     IN  /\ openapi_schema' = <<schema>>
         /\ Finish(i, Response(200, [openapi |-> schema]), "openapi")
  /\ UNCHANGED <<routes, middleware_stack>>

\* the documentation pages
Docs(i) ==
  /\ pc[i] = "routed"
  /\ endpoint[i] \in {"swagger_ui_html", "swagger_ui_redirect", "redoc_html"}
  /\ Finish(i, Response(200, [html |-> endpoint[i]]), endpoint[i])
  /\ UNCHANGED <<routes, openapi_schema, middleware_stack>>

MethodNotAllowed(i) ==
  /\ pc[i] = "routed"
  /\ endpoint[i] = "method_not_allowed"
  /\ Finish(i, Response(405, [detail |-> "Method Not Allowed"]), "")
  /\ UNCHANGED <<routes, openapi_schema, middleware_stack>>

RedirectSlashes(i) ==
  /\ pc[i] = "routed"
  /\ endpoint[i] = "redirect_slashes"
  /\ Finish(i, Response(307, [location |-> redirect_path(req[i].path)]), "")
  /\ UNCHANGED <<routes, openapi_schema, middleware_stack>>

NotFound(i) ==
  /\ pc[i] = "routed"
  /\ endpoint[i] = "not_found"
  /\ Finish(i, Response(404, [detail |-> "Not Found"]), "")
  /\ UNCHANGED <<routes, openapi_schema, middleware_stack>>

\* the response has been sent; the connection is free again
Complete(i) ==
  /\ pc[i] = "done"
  /\ pc' = [pc EXCEPT ![i] = "idle"]
  /\ req' = [req EXCEPT ![i] = NoReq]
  /\ endpoint' = [endpoint EXCEPT ![i] = ""]
  /\ args' = [args EXCEPT ![i] = <<>>]
  /\ ret' = [ret EXCEPT ![i] = NoRet]
  /\ resp' = [resp EXCEPT ![i] = NoResp]
  /\ called' = [called EXCEPT ![i] = ""]
  /\ UNCHANGED <<routes, openapi_schema, middleware_stack>>

\* concurrent requests to the two handlers and the schema
Next ==
  \/ Lifespan
  \/ \E i \in Slots : Receive(i, ConcRequests)
  \/ \E i \in Slots : Dispatch(i)
  \/ \E i \in Slots : Solve(i)
  \/ \E i \in Slots : Health(i)
  \/ \E i \in Slots : Hello(i)
  \/ \E i \in Slots : Respond(i)
  \/ \E i \in Slots : Openapi(i)
  \/ \E i \in Slots : Complete(i)

Spec == Init /\ [][Next]_vars

\* one connection, every request of Requests
NextSeq ==
  \/ Lifespan
  \/ Receive(1, Requests)
  \/ Dispatch(1)
  \/ Solve(1)
  \/ Health(1)
  \/ Hello(1)
  \/ Respond(1)
  \/ Openapi(1)
  \/ Docs(1)
  \/ MethodNotAllowed(1)
  \/ RedirectSlashes(1)
  \/ NotFound(1)
  \/ Complete(1)

SpecSeq == Init /\ [][NextSeq]_vars

(* ------------------------------- claims -------------------------------- *)

Answered(i, path) ==
  /\ pc[i] = "done"
  /\ req[i].method = "GET"
  /\ req[i].path = path

NameKeys(query) == { k \in 1..Len(query) : query[k].key = "name" }

Success(status) == status >= 200 /\ status < 300

\* the response to request r from an application whose route table is rt and
\* whose schema cache is cache, when no other request is in flight
ResponseOn(rt, cache, r) ==
  LET ep == Router(rt, r)
  IN  CASE ep = "health" -> Response(200, [status |-> "ok"])
        [] ep = "hello" ->
             IF NameKeys(r.query) = {}
               THEN Response(422, [detail |-> <<MissingError>>])
               ELSE Response(200, [message |-> Prefix \o QueryGet(r.query, "name")])
        [] ep = "openapi" ->
             Response(200, [openapi |-> IF cache = <<>> THEN get_openapi(rt) ELSE cache[1]])
        [] ep \in {"swagger_ui_html", "swagger_ui_redirect", "redoc_html"} ->
             Response(200, [html |-> ep])
        [] ep = "method_not_allowed" -> Response(405, [detail |-> "Method Not Allowed"])
        [] ep = "redirect_slashes" -> Response(307, [location |-> redirect_path(r.path)])
        [] OTHER -> Response(404, [detail |-> "Not Found"])

\* requests that probe every route, with both methods, and every request
\* to the two handlers
Probes == ConcRequests \cup [method : Methods, path : Paths, query : {<<>>}]

\* connection i takes a step of handling a GET /health or GET /hello request
\* (receipt, dispatch, parameter solving, the function's call, the response,
\* completion)
Handles(i) ==
  /\ pc'[i] # pc[i]
  /\ LET r == IF pc[i] = "idle" THEN req'[i] ELSE req[i]
     IN  r.method = "GET" /\ r.path \in {HealthPath, HelloPath}

OthersUnchanged(i) ==
  \A j \in Slots \ {i} :
    /\ pc'[j] = pc[j]
    /\ req'[j] = req[j]
    /\ endpoint'[j] = endpoint[j]
    /\ args'[j] = args[j]
    /\ ret'[j] = ret[j]
    /\ resp'[j] = resp[j]
    /\ called'[j] = called[j]

\* the response to every probe is the same after the step as before it
\* (nothing to compare when the step leaves both arguments as they are)
SameResponses ==
  \/ <<routes, openapi_schema>>' = <<routes, openapi_schema>>
  \/ \A r \in Probes :
       ResponseOn(routes', openapi_schema', r) = ResponseOn(routes, openapi_schema, r)

\* C1: GET /hello?name=<name> with a non-empty name (supplied once, whatever
\* other parameters accompany it) is answered 200 with the body
\* {"message": "hello " + name}, the name unchanged.
C1_HelloName ==
  \A i \in Slots : \A v \in Names \ {<<>>} :
    ( /\ Answered(i, HelloPath)
      /\ \E k \in 1..Len(req[i].query) :
           /\ req[i].query[k] = [key |-> "name", value |-> v]
           /\ NameKeys(req[i].query) = {k} )
    => resp[i] = [status |-> 200, body |-> [message |-> <<"h", "e", "l", "l", "o", " ">> \o v]]

C1_Witness ==
  \E i \in Slots :
    /\ Answered(i, HelloPath)
    /\ req[i].query = NameOnly(<<"A">>)
    /\ resp[i].status = 200
    /\ resp[i].body = [message |-> <<"h", "e", "l", "l", "o", " ", "A">>]

\* C2: GET /hello without a name parameter is answered 422, never 200, the
\* hello function is not called, and the first detail entry of the body has
\* the message "Field required".
C2_MissingName ==
  \A i \in Slots :
    (Answered(i, HelloPath) /\ NameKeys(req[i].query) = {})
    => /\ resp[i].status = 422
       /\ called[i] # "hello"
       /\ resp[i].body.detail[1].msg = "Field required"

C2_Witness ==
  \E i \in Slots :
    /\ Answered(i, HelloPath)
    /\ req[i].query = <<>>
    /\ resp[i].status = 422
    /\ called[i] = ""

\* C3: GET /health is answered 200 with exactly {"status": "ok"}, in every
\* reachable state and whatever query parameters the request carries.
C3_HealthOk ==
  \A i \in Slots :
    Answered(i, HealthPath) => resp[i] = [status |-> 200, body |-> [status |-> "ok"]]

C3_Witness ==
  \E i \in Slots :
    /\ Answered(i, HealthPath)
    /\ req[i].query # <<>>
    /\ openapi_schema # <<>>
    /\ resp[i].status = 200

\* C4: whatever requests are in flight at the same time and however their
\* steps interleave, a GET /health or GET /hello request receives the
\* response it would receive from a fresh application handling it alone.
C4_Independent ==
  \A i \in Slots :
    (Answered(i, HealthPath) \/ Answered(i, HelloPath))
    => resp[i] = ResponseOn(app, <<>>, req[i])

C4_Witness ==
  \E i, j \in Slots :
    /\ Answered(i, HelloPath)
    /\ req[i].query = NameOnly(<<"A">>)
    /\ resp[i].status = 200
    /\ pc[j] = "returned"
    /\ called[j] = "hello"
    /\ req[j].path = HelloPath
    /\ req[j].query = NameOnly(<<"d">>)

C6_SoleError ==
  \A i \in Slots :
    Answered(i, HelloPath)
    => /\ NameKeys(req[i].query) # {}
          => /\ resp[i].status = 200
             /\ resp[i].body.message = Prefix \o QueryGet(req[i].query, "name")
       /\ resp[i].status >= 400 => NameKeys(req[i].query) = {}

C6_Witness ==
  \E i \in Slots :
    /\ Answered(i, HelloPath)
    /\ req[i].query = NameOnly(<<>>)
    /\ resp[i] = [status |-> 200, body |-> [message |-> Prefix]]

\* C7 as stated: every step that handles a GET /health or GET /hello
\* request, answered 200 or 422, leaves the route table and all other
\* application state (the schema cache, the middleware stack) and every other
\* connection unchanged, and the response to every request is the same after
\* it.
C7_NoSideEffect ==
  [][ \A i \in Slots :
        Handles(i)
        => /\ routes' = routes
           /\ openapi_schema' = openapi_schema
           /\ middleware_stack' = middleware_stack
           /\ OthersUnchanged(i)
           /\ SameResponses ]_vars

\* C7 amended: a step that handles a GET /health or GET /hello request,
\* answered 200 or 422, leaves the route table, the schema cache and every
\* other connection unchanged; the only application state it can write is
\* the middleware stack, which the receipt of the first request builds when
\* no lifespan call has built it before; once built the stack never changes;
\* and after any step the response to every request is the same as before.
C7_OnlyMiddlewareStack ==
  [][ /\ \A i \in Slots :
           Handles(i)
           => /\ routes' = routes
              /\ openapi_schema' = openapi_schema
              /\ middleware_stack' # middleware_stack
                   => /\ pc[i] = "idle"
                      /\ middleware_stack = <<>>
                      /\ middleware_stack' = <<build_middleware_stack>>
              /\ OthersUnchanged(i)
      /\ middleware_stack # <<>> => middleware_stack' = middleware_stack
      /\ SameResponses ]_vars

C7_Witness ==
  \E i, j \in Slots :
    /\ Answered(i, HealthPath)
    /\ Answered(j, HelloPath)
    /\ resp[j].status = 422
    /\ openapi_schema = <<{HealthPath, HelloPath}>>
    /\ middleware_stack = <<build_middleware_stack>>
    /\ routes = app

\* C8: two answered GET /hello requests with the same name have identical
\* status and body, two with different names have different messages, and
\* the name is the message without its first six characters.
C8_Deterministic ==
  \A i, j \in Slots :
    ( /\ Answered(i, HelloPath) /\ NameKeys(req[i].query) # {}
      /\ Answered(j, HelloPath) /\ NameKeys(req[j].query) # {} )
    => LET ni == QueryGet(req[i].query, "name")
           nj == QueryGet(req[j].query, "name")
           mi == resp[i].body.message
       IN  /\ ni = nj => resp[i] = resp[j]
           /\ ni # nj => mi # resp[j].body.message
           /\ SubSeq(mi, 7, Len(mi)) = ni

C8_Witness ==
  \E i, j \in Slots :
    /\ Answered(i, HelloPath)
    /\ Answered(j, HelloPath)
    /\ req[i].query = NameOnly(<<"A">>)
    /\ req[j].query = NameOnly(<<"d">>)
    /\ resp[i].body.message # resp[j].body.message

====
